---- MODULE Spec2Model ----
(***************************************************************************)
(* State-machine model of output_control_MQTT_Soyosource_wifikit32.ino:    *)
(* the demand integrator of the MQTT callback, the 8-byte RS485 command    *)
(* frame, the blocking WiFi / MQTT reconnect loops of loop() and the ESP32 *)
(* task watchdog.  The network (WiFi link, broker session, inbound         *)
(* messages) and the passage of time are the environment.                  *)
(***************************************************************************)
EXTENDS Integers, Sequences, FiniteSets, TLC

(* ---- configuration (lines 58-69) ---- *)
WDT_TIMEOUT == 20
maxOutput == 500
importbuffer == 120

(* ---- serial data constants (lines 81-88) ---- *)
byte0 == 36
byte1 == 86
byte2 == 0
byte3 == 33
byte6 == 128
Byte4Init == 0
Byte5Init == 0
Byte7Init == 8

(* ---- the 32-bit int of the ESP32 build ---- *)
INT_MAX == 2147483647
INT_MIN == (-2147483647) - 1

\* a + b in 32-bit two's complement (wraps on overflow), computed without
\* ever leaving the 32-bit range
Add32(a, b) ==
  IF b >= 0
    THEN IF a > INT_MAX - b
           THEN ((a - INT_MAX) + (b - INT_MAX)) - 2
           ELSE a + b
    ELSE IF a < INT_MIN - b
           THEN (a - INT_MIN) + (b - INT_MIN)
           ELSE a + b

\* a - b in 32-bit two's complement (wraps on overflow)
Sub32(a, b) ==
  IF b > 0
    THEN IF a < INT_MIN + b
           THEN ((a - INT_MIN) + (INT_MAX - b)) + 1
           ELSE a - b
    ELSE IF a > INT_MAX + b
           THEN ((a - INT_MAX) + (INT_MIN - b)) - 1
           ELSE a - b

\* conversion of an int to the Arduino type byte (uint8_t)
ToByte(x) == x % 256

(* ---- inputs ---- *)
\* values String::toInt() hands to the callback: the spec's scenario values
\* and the two ends of the 32-bit range
Measurements == {300, 50, 200, -200, 420, INT_MIN, INT_MAX}

\* the scenario values alone: no measurement near the ends of the int range
NominalMeasurements == {300, 50, 200, -200, 420}

\* measurements that move the demand by one watt up or down, so that every
\* demand of 0..maxOutput is encoded
CodecMeasurements == {importbuffer + 1, importbuffer - 1}

VARIABLES
  pc,            \* position of the single thread of control
  wifi,          \* WiFi.status(): "Up" (WL_CONNECTED) or "Down"
  session,       \* client.connected(): "Connected" or "Disconnected"
  subscribed,    \* client.subscribe() of line 181 was called in this session
  connSince,     \* since the process started: "none" | "link" (setup_wifi()
                 \* returned) | "session" (then a connect succeeded)
  importingnow,  \* int importingnow
  demand,        \* int demand
  byte4, byte5, byte7,   \* the three byte globals the callback recomputes
  serialpacket,  \* byte serialpacket[8]
  wdt,           \* ticks since the task watchdog was last reset
  wire,          \* last frame written to Serial (<<>>: none yet)
  txSeq,         \* flips at every Serial.write
  kaSent,        \* keepalive writes (line 289) in the current loop() iteration
  delivered,     \* what client.loop() dispatched in the current iteration
  sinceMeas,     \* ticks since a measurement was last processed / process start
  linkLoss,      \* loop() saw the link down at non-zero demand, demand not zeroed since
  resume,        \* "fresh" | "dropped" (session lost at demand > 0) | "reestablished"
  override       \* reconnect() or a restart rewrote the frame since the last write

vars == <<pc, wifi, session, subscribed, connSince, importingnow, demand, byte4, byte5, byte7,
          serialpacket, wdt, wire, txSeq, kaSent, delivered, sinceMeas,
          linkLoss, resume, override>>

netVars  == <<wifi, session, subscribed, connSince>>
ctlVars  == <<importingnow, demand, byte4, byte5, byte7, serialpacket>>
txVars   == <<wire, txSeq>>
timeVars == <<wdt, sinceMeas>>

(* ---- callback(): demand controller, lines 207-213 ---- *)
\* mutant: the cap at maxOutput is missing
ClampDemand_NoCap(d) == IF d <= 0 THEN 0 ELSE d

ClampDemand(d) ==
  IF d >= maxOutput THEN maxOutput
  ELSE IF d <= 0 THEN 0
  ELSE d

UpdateDemand(d, m) == ClampDemand(Add32(d, Sub32(m, importbuffer)))

(* ---- callback(): packet bytes, lines 216-224.  Every value is stored in ---- *)
(* ---- a byte before its guard reads it                                  ---- *)
\* mutant: the high byte is the quotient by 255
Byte4Of_Div255(d) ==
  LET b == ToByte(d \div 255)
  IN  IF b < 0 \/ b > 256 THEN 0 ELSE b

Byte4Of(d) ==
  LET b == ToByte(d \div 256)
  IN  IF b < 0 \/ b > 256 THEN 0 ELSE b

Byte5Of(d) ==
  LET b == ToByte(d - (Byte4Of(d) * 256))
  IN  IF b < 0 \/ b > 256 THEN 0 ELSE b

Byte7Of(d) ==
  LET b == ToByte(264 - Byte4Of(d) - Byte5Of(d))
  IN  IF b > 256 THEN 8 ELSE b

\* serialpacket after lines 226-228
PacketAfterCallback(p, d) ==
  [p EXCEPT ![5] = Byte4Of(d), ![6] = Byte5Of(d), ![8] = Byte7Of(d)]

\* serialpacket after lines 171-173 of reconnect()
PacketAfterReconnect(p) == [p EXCEPT ![5] = 0, ![6] = 0, ![7] = 128]

\* mutant: setup() does not store the checksum byte
PacketAfterSetup_NoChecksum ==
  <<byte0, byte1, byte2, byte3, byte4, byte5, byte6, 0>>

\* serialpacket after lines 117-124 of setup()
PacketAfterSetup == <<byte0, byte1, byte2, byte3, byte4, byte5, byte6, byte7>>

\* mutant: the callback does not feed the watchdog
esp_task_wdt_reset_Missing(t) == t

\* esp_task_wdt_reset(), line 232
esp_task_wdt_reset(t) == 0

Flip(b) == 1 - b

\* the watchdog has not expired: the thread still runs
Running == wdt < WDT_TIMEOUT

(* ---- state after the globals' initialisers, before setup() ---- *)
Init ==
  /\ pc = "setup"
  /\ wifi = "Down"
  /\ session = "Disconnected"
  /\ subscribed = FALSE
  /\ connSince = "none"
  /\ importingnow = 0
  /\ demand = 0
  /\ byte4 = Byte4Init
  /\ byte5 = Byte5Init
  /\ byte7 = Byte7Init
  /\ serialpacket = <<0, 0, 0, 0, 0, 0, 0, 0>>
  /\ wdt = 0
  /\ wire = <<>>
  /\ txSeq = 0
  /\ kaSent = 0
  /\ delivered = "none"
  /\ sinceMeas = 0
  /\ linkLoss = FALSE
  /\ resume = "fresh"
  /\ override = FALSE

(* ---- setup(), lines 100-127: arm the watchdog, fill the packet, ---- *)
(* ---- WiFi.begin()                                               ---- *)
Setup ==
  /\ pc = "setup"
  /\ wdt' = 0
  /\ sinceMeas' = 0
  /\ serialpacket' = PacketAfterSetup
  /\ pc' = "setup_wifi"
  /\ UNCHANGED <<netVars, importingnow, demand, byte4, byte5, byte7, txVars,
                 kaSent, delivered, linkLoss, resume, override>>

\* setup_wifi(), lines 143-156, leaves its wait loop; setup() returns
SetupWifiDone ==
  /\ pc = "setup_wifi"
  /\ Running
  /\ wifi = "Up"
  /\ pc' = "loop_wifi"
  /\ connSince' = "link"
  /\ UNCHANGED <<wifi, session, subscribed, ctlVars, txVars, timeVars, kaSent, delivered,
                 linkLoss, resume, override>>

\* mutant: the link check also zeroes demand and frame when the link is down
LoopWifiCheck_ZeroOnLoss ==
  /\ pc = "loop_wifi"
  /\ Running
  /\ IF wifi # "Up"
       THEN /\ pc' = "wifi_wait"
            /\ demand' = 0
            /\ serialpacket' = PacketAfterReconnect(serialpacket)
       ELSE /\ pc' = "loop_mqtt"
            /\ UNCHANGED <<demand, serialpacket>>
  /\ UNCHANGED <<netVars, importingnow, byte4, byte5, byte7, txVars, timeVars,
                 kaSent, delivered, linkLoss, resume, override>>

(* ---- loop(), lines 262-273 ---- *)
LoopWifiCheck ==
  /\ pc = "loop_wifi"
  /\ Running
  /\ IF wifi # "Up"
       THEN /\ pc' = "wifi_wait"
            /\ linkLoss' = (linkLoss \/ demand # 0)
       ELSE /\ pc' = "loop_mqtt"
            /\ UNCHANGED linkLoss
  /\ UNCHANGED <<netVars, ctlVars, txVars, timeVars, kaSent, delivered,
                 resume, override>>

WifiWaitDone ==
  /\ pc = "wifi_wait"
  /\ Running
  /\ wifi = "Up"
  /\ pc' = "loop_mqtt"
  /\ UNCHANGED <<netVars, ctlVars, txVars, timeVars, kaSent, delivered,
                 linkLoss, resume, override>>

(* ---- loop(), lines 276-278 ---- *)
LoopMqttCheck ==
  /\ pc = "loop_mqtt"
  /\ Running
  /\ pc' = IF session # "Connected" THEN "reconnect" ELSE "client_loop"
  /\ UNCHANGED <<netVars, ctlVars, txVars, timeVars, kaSent, delivered,
                 linkLoss, resume, override>>

\* mutant: the subscription is made once and not repeated by a later connect
Subscribe_OnlyFirst(c) == c = "link"

\* line 181: client.subscribe() is called after every successful connect
\* (c: connSince at the connect)
Subscribe(c) == TRUE

\* mutant: every pass of reconnect()'s loop feeds the watchdog
ReconnectAttempt_FeedsWatchdog ==
  /\ pc = "reconnect"
  /\ Running
  /\ session # "Connected"
  /\ serialpacket' = PacketAfterReconnect(serialpacket)
  /\ demand' = 0
  /\ importingnow' = 0
  /\ linkLoss' = FALSE
  /\ override' = TRUE
  /\ wdt' = 0
  /\ \E ok \in BOOLEAN :
       /\ ok => wifi = "Up"
       /\ IF ok
            THEN /\ session' = "Connected"
                 /\ subscribed' = Subscribe(connSince)
                 /\ connSince' = "session"
                 /\ pc' = "reconnect"
                 /\ resume' = IF resume = "dropped" THEN "reestablished" ELSE resume
            ELSE /\ pc' = "reconnect_delay"
                 /\ UNCHANGED <<session, subscribed, connSince, resume>>
  /\ UNCHANGED <<wifi, byte4, byte5, byte7, txVars, sinceMeas, kaSent, delivered>>

\* mutant: every pass of reconnect()'s loop writes the zeroed packet
ReconnectAttempt_WritesFrame ==
  /\ pc = "reconnect"
  /\ Running
  /\ session # "Connected"
  /\ serialpacket' = PacketAfterReconnect(serialpacket)
  /\ demand' = 0
  /\ importingnow' = 0
  /\ linkLoss' = FALSE
  /\ override' = FALSE
  /\ wire' = serialpacket'
  /\ txSeq' = Flip(txSeq)
  /\ \E ok \in BOOLEAN :
       /\ ok => wifi = "Up"
       /\ IF ok
            THEN /\ session' = "Connected"
                 /\ subscribed' = Subscribe(connSince)
                 /\ connSince' = "session"
                 /\ pc' = "reconnect"
                 /\ resume' = IF resume = "dropped" THEN "reestablished" ELSE resume
            ELSE /\ pc' = "reconnect_delay"
                 /\ UNCHANGED <<session, subscribed, connSince, resume>>
  /\ UNCHANGED <<wifi, byte4, byte5, byte7, timeVars, kaSent, delivered>>

(* ---- reconnect(), lines 167-189: one pass of the while body ---- *)
ReconnectAttempt ==
  /\ pc = "reconnect"
  /\ Running
  /\ session # "Connected"
  /\ serialpacket' = PacketAfterReconnect(serialpacket)
  /\ demand' = 0
  /\ importingnow' = 0
  /\ linkLoss' = FALSE
  /\ override' = TRUE
  /\ \E ok \in BOOLEAN :
       /\ ok => wifi = "Up"
       /\ IF ok
            THEN /\ session' = "Connected"
                 /\ subscribed' = Subscribe(connSince)
                 /\ connSince' = "session"
                 /\ pc' = "reconnect"
                 /\ resume' = IF resume = "dropped" THEN "reestablished" ELSE resume
            ELSE /\ pc' = "reconnect_delay"
                 /\ UNCHANGED <<session, subscribed, connSince, resume>>
  /\ UNCHANGED <<wifi, byte4, byte5, byte7, txVars, timeVars, kaSent, delivered>>

\* delay(5000) of line 187 is over
ReconnectDelayDone ==
  /\ pc = "reconnect_delay"
  /\ Running
  /\ pc' = "reconnect"
  /\ UNCHANGED <<netVars, ctlVars, txVars, timeVars, kaSent, delivered,
                 linkLoss, resume, override>>

\* the while condition of line 167 is false: reconnect() returns
ReconnectExit ==
  /\ pc = "reconnect"
  /\ Running
  /\ session = "Connected"
  /\ pc' = "client_loop"
  /\ UNCHANGED <<netVars, ctlVars, txVars, timeVars, kaSent, delivered,
                 linkLoss, resume, override>>

\* mutant: client.loop() hands a buffered message to the callback although
\* the session is gone
CanDispatch_Always == TRUE

\* client.loop(), line 281, calls the callback only on a connected session
CanDispatch == session = "Connected"

\* mutant: the callback computes the packet but does not write it
CallbackMeasurement_NoWrite(m) ==
  /\ pc = "client_loop"
  /\ Running
  /\ CanDispatch
  /\ importingnow' = Add32(Sub32(m, importbuffer), importbuffer)
  /\ demand' = UpdateDemand(demand, m)
  /\ byte4' = Byte4Of(demand')
  /\ byte5' = Byte5Of(demand')
  /\ byte7' = Byte7Of(demand')
  /\ serialpacket' = PacketAfterCallback(serialpacket, demand')
  /\ wdt' = esp_task_wdt_reset(wdt)
  /\ sinceMeas' = 0
  /\ delivered' = "measurement"
  /\ resume' = "fresh"
  /\ pc' = "keepalive"
  /\ UNCHANGED <<netVars, txVars, kaSent, linkLoss, override>>

\* mutant: client.loop() goes on dispatching while messages are buffered
CallbackMeasurement_StaysInLoop(m) ==
  /\ pc = "client_loop"
  /\ Running
  /\ CanDispatch
  /\ importingnow' = Add32(Sub32(m, importbuffer), importbuffer)
  /\ demand' = UpdateDemand(demand, m)
  /\ byte4' = Byte4Of(demand')
  /\ byte5' = Byte5Of(demand')
  /\ byte7' = Byte7Of(demand')
  /\ serialpacket' = PacketAfterCallback(serialpacket, demand')
  /\ wire' = serialpacket'
  /\ txSeq' = Flip(txSeq)
  /\ wdt' = esp_task_wdt_reset(wdt)
  /\ sinceMeas' = 0
  /\ delivered' = "measurement"
  /\ resume' = "fresh"
  /\ override' = FALSE
  /\ pc' = "client_loop"
  /\ UNCHANGED <<netVars, kaSent, linkLoss>>

(* ---- client.loop(), line 281, dispatching callback(), lines 192-258 ---- *)
CallbackMeasurement(m) ==
  /\ pc = "client_loop"
  /\ Running
  /\ CanDispatch
  /\ importingnow' = Add32(Sub32(m, importbuffer), importbuffer)
  /\ demand' = UpdateDemand(demand, m)
  /\ byte4' = Byte4Of(demand')
  /\ byte5' = Byte5Of(demand')
  /\ byte7' = Byte7Of(demand')
  /\ serialpacket' = PacketAfterCallback(serialpacket, demand')
  /\ wire' = serialpacket'
  /\ txSeq' = Flip(txSeq)
  /\ wdt' = esp_task_wdt_reset(wdt)
  /\ sinceMeas' = 0
  /\ delivered' = "measurement"
  /\ resume' = "fresh"
  /\ override' = FALSE
  /\ pc' = "keepalive"
  /\ UNCHANGED <<netVars, kaSent, linkLoss>>

\* mutant: the watchdog is fed after the topic test instead of inside it
CallbackOther_FeedsWatchdog ==
  /\ pc = "client_loop"
  /\ Running
  /\ CanDispatch
  /\ delivered' = "other"
  /\ wdt' = esp_task_wdt_reset(wdt)
  /\ pc' = "keepalive"
  /\ UNCHANGED <<netVars, ctlVars, txVars, sinceMeas, kaSent, linkLoss,
                 resume, override>>

\* a message on another topic: neither if of the callback matches
CallbackOther ==
  /\ pc = "client_loop"
  /\ Running
  /\ CanDispatch
  /\ delivered' = "other"
  /\ pc' = "keepalive"
  /\ UNCHANGED <<netVars, ctlVars, txVars, timeVars, kaSent, linkLoss,
                 resume, override>>

\* nothing to dispatch, or the session is gone
ClientLoopIdle ==
  /\ pc = "client_loop"
  /\ Running
  /\ pc' = "keepalive"
  /\ UNCHANGED <<netVars, ctlVars, txVars, timeVars, kaSent, delivered,
                 linkLoss, resume, override>>

\* mutant: no keepalive write when the callback has just written the frame
Keepalive_SkipAfterMeasurement ==
  /\ pc = "keepalive"
  /\ Running
  /\ IF delivered = "measurement"
       THEN UNCHANGED <<wire, txSeq, kaSent, override>>
       ELSE /\ wire' = serialpacket
            /\ txSeq' = Flip(txSeq)
            /\ kaSent' = kaSent + 1
            /\ override' = FALSE
  /\ pc' = "loop_delay"
  /\ UNCHANGED <<netVars, ctlVars, timeVars, delivered, linkLoss, resume>>

\* mutant: the keepalive write also feeds the watchdog
Keepalive_FeedsWatchdog ==
  /\ pc = "keepalive"
  /\ Running
  /\ wire' = serialpacket
  /\ txSeq' = Flip(txSeq)
  /\ kaSent' = kaSent + 1
  /\ override' = FALSE
  /\ wdt' = 0
  /\ pc' = "loop_delay"
  /\ UNCHANGED <<netVars, ctlVars, sinceMeas, delivered, linkLoss, resume>>

(* ---- loop(), line 289: the keepalive write ---- *)
Keepalive ==
  /\ pc = "keepalive"
  /\ Running
  /\ wire' = serialpacket
  /\ txSeq' = Flip(txSeq)
  /\ kaSent' = kaSent + 1
  /\ override' = FALSE
  /\ pc' = "loop_delay"
  /\ UNCHANGED <<netVars, ctlVars, timeVars, delivered, linkLoss, resume>>

\* delay(600) of line 290 is over: loop() returns and is called again
LoopDelayDone ==
  /\ pc = "loop_delay"
  /\ Running
  /\ pc' = "loop_wifi"
  /\ kaSent' = 0
  /\ delivered' = "none"
  /\ UNCHANGED <<netVars, ctlVars, txVars, timeVars, linkLoss, resume, override>>

(* ---- time: it passes in the delay() calls and in the blocking ---- *)
(* ---- client.connect() of line 177                             ---- *)
DelayPcs == {"setup_wifi", "wifi_wait", "reconnect", "reconnect_delay",
             "loop_delay"}

Tick ==
  /\ pc \in DelayPcs
  /\ Running
  /\ wdt' = wdt + 1
  /\ sinceMeas' = IF sinceMeas <= WDT_TIMEOUT THEN sinceMeas + 1 ELSE sinceMeas
  /\ UNCHANGED <<pc, netVars, ctlVars, txVars, kaSent, delivered, linkLoss,
                 resume, override>>

(* ---- the task watchdog expires (line 102, panic = true): the chip ---- *)
(* ---- restarts, the globals get their initialisers again           ---- *)
WatchdogRestart ==
  /\ wdt >= WDT_TIMEOUT
  /\ pc' = "setup"
  /\ wifi' = "Down"
  /\ session' = "Disconnected"
  /\ subscribed' = FALSE
  /\ connSince' = "none"
  /\ importingnow' = 0
  /\ demand' = 0
  /\ byte4' = Byte4Init
  /\ byte5' = Byte5Init
  /\ byte7' = Byte7Init
  /\ serialpacket' = <<0, 0, 0, 0, 0, 0, 0, 0>>
  /\ wdt' = 0
  /\ sinceMeas' = 0
  /\ kaSent' = 0
  /\ delivered' = "none"
  /\ linkLoss' = FALSE
  /\ resume' = "fresh"
  /\ override' = TRUE
  /\ UNCHANGED txVars

(* ---- environment ---- *)
LinkLoss ==
  /\ wifi = "Up"
  /\ wifi' = "Down"
  /\ UNCHANGED <<pc, session, subscribed, connSince, ctlVars, txVars, timeVars,
                 kaSent, delivered, linkLoss, resume, override>>

\* the station associates again (WiFi.begin / WiFi.reconnect was called)
LinkUp ==
  /\ pc # "setup"
  /\ wifi = "Down"
  /\ wifi' = "Up"
  /\ UNCHANGED <<pc, session, subscribed, connSince, ctlVars, txVars, timeVars,
                 kaSent, delivered, linkLoss, resume, override>>

SessionDrop ==
  /\ session = "Connected"
  /\ session' = "Disconnected"
  /\ resume' = IF demand > 0 THEN "dropped" ELSE resume
  /\ subscribed' = FALSE
  /\ UNCHANGED <<pc, wifi, connSince, ctlVars, txVars, timeVars, kaSent, delivered,
                 linkLoss, override>>

\* every step of the program and of its environment, the measurements drawn
\* from M
NextWith(M) ==
  \/ Setup
  \/ SetupWifiDone
  \/ LoopWifiCheck
  \/ WifiWaitDone
  \/ LoopMqttCheck
  \/ ReconnectAttempt
  \/ ReconnectDelayDone
  \/ ReconnectExit
  \/ \E m \in M : CallbackMeasurement(m)
  \/ CallbackOther
  \/ ClientLoopIdle
  \/ Keepalive
  \/ LoopDelayDone
  \/ Tick
  \/ WatchdogRestart
  \/ LinkLoss
  \/ LinkUp
  \/ SessionDrop

Next == NextWith(Measurements)

Spec == Init /\ [][Next]_vars

(* ---- the same program fed only measurements that cannot overflow ---- *)
NextNominal == NextWith(NominalMeasurements)

SpecNominal == Init /\ [][NextNominal]_vars

(* ---- the control loop on a stable network, fed one-watt steps: every ---- *)
(* ---- demand in 0..maxOutput passes through the packet computation    ---- *)
NextCodec ==
  \/ Setup
  \/ LinkUp
  \/ SetupWifiDone
  \/ LoopWifiCheck
  \/ LoopMqttCheck
  \/ ReconnectAttempt
  \/ ReconnectDelayDone
  \/ ReconnectExit
  \/ \E m \in CodecMeasurements : CallbackMeasurement(m)
  \/ ClientLoopIdle
  \/ Keepalive
  \/ LoopDelayDone

SpecCodec == Init /\ [][NextCodec]_vars

(* ---- the program under fair scheduling: the single thread takes a    ---- *)
(* ---- step whenever it has one, every delay() lets time pass, and an  ---- *)
(* ---- expired watchdog restarts the chip.  The network is not fair:   ---- *)
(* ---- link and broker may stay away for ever                          ---- *)
LiveMeasurements == {maxOutput + importbuffer, importbuffer - maxOutput}

ThreadStep ==
  \/ Setup
  \/ SetupWifiDone
  \/ LoopWifiCheck
  \/ WifiWaitDone
  \/ LoopMqttCheck
  \/ ReconnectAttempt
  \/ ReconnectDelayDone
  \/ ReconnectExit
  \/ \E m \in LiveMeasurements : CallbackMeasurement(m)
  \/ CallbackOther
  \/ ClientLoopIdle
  \/ Keepalive
  \/ LoopDelayDone

NextLive == NextWith(LiveMeasurements)

Fairness ==
  /\ WF_vars(ThreadStep)
  /\ SF_vars(Tick)
  /\ WF_vars(WatchdogRestart)

SpecLive == Init /\ [][NextLive]_vars /\ Fairness

(***************************************************************************)
(* Properties                                                              *)
(***************************************************************************)

\* a step that writes a frame to Serial
TxStep == txSeq' # txSeq

\* a step in which the callback processes a measurement
MeasurementStep == pc = "client_loop" /\ delivered' = "measurement"

\* clamp(d + (m - importbuffer), 0, maxOutput) over the mathematical integers
ExactClamp(d, m) ==
  IF m >= (maxOutput + importbuffer) - d THEN maxOutput
  ELSE IF m <= importbuffer - d THEN 0
  ELSE d + (m - importbuffer)

\* the frame the packet computation yields for demand d
Encode(d) ==
  <<byte0, byte1, byte2, byte3, Byte4Of(d), Byte5Of(d), byte6, Byte7Of(d)>>

\* 264 - high - low, replaced by the fallback 8 when it does not fit a byte
ExpectedChecksum(d) ==
  LET c == 264 - (d \div 256) - (d % 256)
  IN  IF c <= 255 THEN c ELSE 8

LoopPcsBeforeWrite ==
  {"loop_wifi", "wifi_wait", "loop_mqtt", "reconnect", "reconnect_delay",
   "client_loop", "keepalive"}

\* C1: in every reachable state 0 <= demand <= maxOutput.
C1_DemandInRange == demand >= 0 /\ demand <= maxOutput

\* C1 witness: a measurement at the 32-bit maximum has just been processed
\* and the demand sits at the cap.
C1_Witness ==
  pc = "keepalive" /\ delivered = "measurement" /\ importingnow = INT_MAX
  /\ demand = maxOutput

\* C2: no frame written while the session is not Connected encodes a
\* non-zero demand (bytes 4 and 5 are both 0).
C2_SafeZeroWhileDisconnected ==
  [][(TxStep /\ session' # "Connected") => (wire'[5] = 0 /\ wire'[6] = 0)]_vars

\* C3: once loop() has detected the loss of the link, the demand is forced to
\* 0 before any further frame is written: no frame that encodes a non-zero
\* demand is written while a detected loss has not been followed by the zeroing.
C3_ZeroBeforeFrameAfterLinkLoss ==
  [][(TxStep /\ linkLoss) => (wire'[5] = 0 /\ wire'[6] = 0)]_vars

\* C4: processing measurement m at demand d sets the demand to
\* clamp(d + (m - importbuffer), 0, maxOutput).
C4_UpdateIsClampedSum ==
  [][MeasurementStep => demand' = ExactClamp(demand, importingnow')]_vars

\* C5: the checksum byte of the frame a measurement update produces is
\* 264 - high - low when that fits one byte, and the fallback 8 otherwise.
C5_ChecksumOrFallback ==
  (pc = "keepalive" /\ delivered = "measurement")
    => serialpacket[8] = ExpectedChecksum(demand)

\* C6: every frame written to Serial is, in all 8 bytes, the encoding of the
\* demand at the moment of the write.
C6_FrameEncodesDemand == [][TxStep => wire' = Encode(demand')]_vars

\* C7: the time since the last processed measurement (or process start) never
\* exceeds WDT_TIMEOUT; when it reaches WDT_TIMEOUT the program does nothing
\* but restart; processing a measurement sets the watchdog timer to 0.
C7_Watchdog ==
  /\ [](sinceMeas <= WDT_TIMEOUT)
  /\ [][/\ sinceMeas >= WDT_TIMEOUT
            => (pc' = "setup" \/ UNCHANGED <<pc, ctlVars, txVars, timeVars>>)
        /\ MeasurementStep => wdt' = 0]_vars

\* C7 witness: the process restarted after the timeout, some time after a
\* measurement had produced a non-zero frame.
C7_Witness == pc = "setup" /\ wire # <<>> /\ wire[6] # 0

\* C8: the first measurement m processed after a session drop at demand > 0
\* and the session's re-establishment yields clamp(m - importbuffer, 0, maxOutput).
C8_ResumeFromZero ==
  [][(MeasurementStep /\ resume = "reestablished")
       => demand' = ExactClamp(0, importingnow')]_vars

\* C9: every loop() iteration that reaches its end has written the current
\* frame exactly once in its keepalive step, measurement or not.
C9_KeepaliveOncePerIteration ==
  /\ pc = "loop_delay" => (kaSent = 1 /\ wire = serialpacket)
  /\ pc \in LoopPcsBeforeWrite => kaSent = 0

\* C9 witness: link up, session Connected, a measurement arrived in this
\* iteration and the keepalive write has been made.
C9_Witness ==
  pc = "loop_delay" /\ wifi = "Up" /\ session = "Connected"
  /\ delivered = "measurement" /\ kaSent = 1

\* C10 (as claimed): every keepalive frame equals the frame written before it.
C10_KeepaliveRepeatsPrevious ==
  [][(pc = "keepalive" /\ TxStep /\ wire # <<>>) => wire' = wire]_vars

\* C10 (amended): every keepalive frame equals the frame written before it,
\* unless reconnect()'s zeroing or a restart ran between the two writes.
C10_KeepaliveRepeatsUnlessOverride ==
  [][(pc = "keepalive" /\ TxStep /\ wire # <<>> /\ ~override) => wire' = wire]_vars

\* C10 witness: an iteration without a measurement has re-sent a non-zero
\* frame that an earlier iteration's callback had sent.
C10_Witness ==
  pc = "loop_delay" /\ delivered = "none" /\ demand > 0 /\ wire = serialpacket

\* a step that starts the processing of a measurement, wherever it is taken
ProcessedStep == delivered # "measurement" /\ delivered' = "measurement"

\* C11: a measurement is processed only in the dispatch step of loop() and
\* only on a Connected session; while the session is not Connected no step
\* updates the demand (other than to 0), re-encodes the packet bytes or feeds
\* the watchdog.
C11_NoMeasurementWhileDisconnected ==
  [][/\ ProcessedStep => (session = "Connected" /\ pc = "client_loop")
     /\ (session # "Connected" /\ pc' # "setup")
          => /\ demand' \in {demand, 0}
             /\ <<byte4', byte5', byte7'>> = <<byte4, byte5, byte7>>
             /\ wdt' >= wdt]_vars

\* C11 witness: the session dropped at a non-zero demand after the check of
\* line 276 and the thread stands at client.loop().
C11_Witness == pc = "client_loop" /\ session # "Connected" /\ demand > 0

\* C12: the step that processes a measurement itself writes the frame that
\* encodes the new demand, before the keepalive write of the iteration.
C12_FrameInMeasurementStep ==
  [][MeasurementStep
       => /\ TxStep
          /\ wire' = serialpacket'
          /\ wire' = Encode(demand')
          /\ (wire'[5] * 256) + wire'[6] = demand'
          /\ kaSent' = 0]_vars

\* C12 witness: a measurement gave a non-zero demand, its frame is on the
\* wire and the keepalive write of the iteration is still to come.
C12_Witness ==
  pc = "keepalive" /\ delivered = "measurement" /\ kaSent = 0 /\ demand > 0
  /\ wire = Encode(demand)

\* C13: whenever the session is Connected, the subscription of line 181 was
\* issued within this session, so reconnect() never returns to loop() with a
\* session that was started without it.
C13_SubscribedWhenConnected ==
  /\ session = "Connected" => subscribed
  /\ (pc = "client_loop" /\ subscribed) => connSince = "session"

\* C13 witness: a session was lost and started again, and loop() is back at
\* client.loop() with the subscription of the new session.
C13_Witness ==
  pc = "client_loop" /\ resume = "reestablished" /\ session = "Connected"
  /\ subscribed

\* C14: for the measurements at the two ends of the signed 32-bit range the
\* update saturates: the new demand is the clamp of the exact (unbounded) sum,
\* maxOutput for the largest measurement and 0 for the most negative one.
C14_SaturatesAtExtremes ==
  [][(MeasurementStep /\ importingnow' \in {INT_MIN, INT_MAX})
       => /\ demand' = ExactClamp(demand, importingnow')
          /\ importingnow' = INT_MAX => demand' = maxOutput
          /\ importingnow' = INT_MIN => demand' = 0]_vars

\* C15: after the packet computation byte4 is demand div 256, byte5 is
\* demand mod 256 and byte4 * 256 + byte5 is the demand, for every demand of
\* 0..maxOutput; the guards of lines 217 and 220 change neither byte.
C15_SplitRoundTrip ==
  (pc = "keepalive" /\ delivered = "measurement")
    => /\ demand \in 0..maxOutput
       /\ byte4 = demand \div 256
       /\ byte5 = demand % 256
       /\ (byte4 * 256) + byte5 = demand
       /\ serialpacket[5] = byte4
       /\ serialpacket[6] = byte5

\* C15 witness: the packet was computed for the largest demand, whose high
\* byte is not 0.
C15_Witness ==
  pc = "keepalive" /\ delivered = "measurement" /\ demand = maxOutput
  /\ byte4 = 1 /\ byte5 = 244

\* C16: after a watchdog restart setup() leaves the initial state: demand 0,
\* packet 36,86,0,33,0,0,128,8, watchdog timer at 0, session not Connected;
\* and a measurement is processed only after setup_wifi() found the link and
\* a connect of reconnect() succeeded, both after the restart.
C16_RestartToInitialState ==
  /\ [](pc = "setup_wifi"
          => /\ demand = 0
             /\ serialpacket = <<36, 86, 0, 33, 0, 0, 128, 8>>
             /\ session = "Disconnected"
             /\ ~subscribed
             /\ connSince = "none")
  /\ [][/\ pc = "setup" => (pc' = "setup_wifi" /\ wdt' = 0)
        /\ (wdt >= WDT_TIMEOUT /\ pc' # pc)
             => (pc' = "setup" /\ demand' = 0 /\ session' = "Disconnected"
                 /\ wifi' = "Down")
        /\ ProcessedStep => connSince = "session"]_vars

\* C16 witness: the watchdog restarted the system while the last frame on the
\* wire carried a non-zero demand, and setup() has run again.
C16_Witness ==
  pc = "setup_wifi" /\ wire # <<>> /\ wire[5] + wire[6] > 0
  /\ serialpacket = <<36, 86, 0, 33, 0, 0, 128, 8>> /\ wdt = 0

ReconnectLoopPcs == {"reconnect", "reconnect_delay"}

\* C17: the wait loop of lines 267-270 and the while loop of reconnect() are
\* always left: by their exit, taken with the link Up resp. the session
\* Connected, or by the watchdog restart; this also when the link is down
\* while reconnect() loops.
C17_ReconnectLoopsEnd ==
  /\ (pc = "wifi_wait") ~> (pc \in {"loop_mqtt", "setup"})
  /\ (pc \in ReconnectLoopPcs) ~> (pc \in {"client_loop", "setup"})
  /\ (pc \in ReconnectLoopPcs /\ wifi = "Down")
        ~> (pc \in {"client_loop", "setup"})
  /\ [][/\ (pc = "wifi_wait" /\ pc' = "loop_mqtt") => wifi' = "Up"
        /\ (pc \in ReconnectLoopPcs /\ pc' = "client_loop")
             => session' = "Connected"]_vars

\* C17 witness: reconnect() is between two attempts with the link down and
\* the watchdog timer running.
C17_Witness ==
  pc = "reconnect_delay" /\ wifi = "Down" /\ wdt > 0 /\ connSince = "session"

\* C18: the watchdog timer goes back only in the step that processes a
\* measurement (or when its expiry restarts the chip); keepalive writes, link
\* changes, connect attempts and idle iterations leave it running.
C18_OnlyMeasurementFeedsWatchdog ==
  [][wdt' < wdt
       => ((ProcessedStep /\ pc = "client_loop")
           \/ (wdt >= WDT_TIMEOUT /\ pc' = "setup"))]_vars

\* C18 witness: the timer has run on through connects and keepalive writes.
C18_Witness ==
  pc = "client_loop" /\ wdt > 0 /\ session = "Connected" /\ wire # <<>>
  /\ resume = "reestablished"

\* C19: inside the wait loop of lines 267-270 and inside reconnect() no frame
\* is written and no measurement is processed.
C19_SilentInReconnectLoops ==
  [][(pc \in ({"wifi_wait"} \cup ReconnectLoopPcs))
       => (~TxStep /\ wire' = wire /\ ~ProcessedStep
           /\ delivered' # "measurement")]_vars

\* C19 witness: reconnect() has zeroed the demand and loops, the last frame
\* on the wire still carries the demand from before the session was lost.
C19_Witness ==
  pc = "reconnect_delay" /\ demand = 0 /\ wire # <<>> /\ wire[5] + wire[6] > 0

\* the order of the steps of one loop() iteration (reconnect() included)
LoopOrder ==
  {<<"loop_wifi", "wifi_wait">>, <<"loop_wifi", "loop_mqtt">>,
   <<"wifi_wait", "loop_mqtt">>, <<"loop_mqtt", "reconnect">>,
   <<"loop_mqtt", "client_loop">>, <<"reconnect", "reconnect_delay">>,
   <<"reconnect_delay", "reconnect">>, <<"reconnect", "client_loop">>,
   <<"client_loop", "keepalive">>, <<"keepalive", "loop_delay">>,
   <<"loop_delay", "loop_wifi">>}

\* C20: a measurement is processed only when none was processed since the
\* last keepalive write, and an iteration runs link check, session check or
\* reconnect, one dispatch, one keepalive write, in this order.
C20_OneMeasurementPerIteration ==
  /\ [](pc = "client_loop" => (delivered = "none" /\ kaSent = 0))
  /\ [][/\ MeasurementStep => (delivered = "none" /\ pc' = "keepalive")
        /\ (pc' # pc /\ pc \notin {"setup", "setup_wifi"} /\ pc' # "setup")
             => <<pc, pc'>> \in LoopOrder
        /\ (pc = "keepalive" /\ pc' = "loop_delay")
             => (TxStep /\ kaSent' = 1)]_vars

\* C20 witness: the iteration processed one measurement and then wrote its
\* keepalive frame.
C20_Witness ==
  pc = "loop_delay" /\ delivered = "measurement" /\ kaSent = 1 /\ demand > 0

\* a step in which client.loop() hands the callback a message whose topic is
\* not the measurement topic
OtherTopicStep == pc = "client_loop" /\ delivered' = "other"

\* C21: a message on a topic other than the measurement topic changes
\* neither demand nor serialpacket (nor the byte globals) nor the watchdog
\* timer, and writes nothing to Serial.
C21_OtherTopicChangesNothing ==
  [][OtherTopicStep
       => /\ demand' = demand
          /\ importingnow' = importingnow
          /\ serialpacket' = serialpacket
          /\ <<byte4', byte5', byte7'>> = <<byte4, byte5, byte7>>
          /\ wdt' = wdt
          /\ ~TxStep
          /\ wire' = wire]_vars

\* C21 witness: a message on another topic was dispatched while the demand
\* was non-zero and the watchdog timer was running.
C21_Witness ==
  pc = "keepalive" /\ delivered = "other" /\ demand > 0 /\ wdt > 0
  /\ kaSent = 0

====
